---- MODULE Spec2Model ----
(***************************************************************************)
(* State-machine model of the job-source pipeline:                         *)
(*   pipeline.py          JobSourcePipeline (run, process_single_company)  *)
(*   career_finder.py     CareerPageFinder (three discovery tiers)         *)
(*   claude_fallback.py   ClaudeFallback (budgeted AI tier)                *)
(*   position_extractor.py PositionExtractor (render engine, job links)    *)
(*   models.py            ExecutionStatistics                              *)
(* External collaborators (HTTP, the AI model, the browser, the listing    *)
(* API, the file system) are inputs drawn nondeterministically by the      *)
(* actions.                                                                *)
(***************************************************************************)
EXTENDS Integers, Sequences, FiniteSets, TLC

\* ------------------------------------------------------------------ bounds
\* Largest number of raw items the listing collaborator answers with.
MaxItems == 2
\* The AI call ceiling, scaled down (config.py sets max_claude_calls to 50).
MaxClaudeCalls == 1
\* Number of configured direct paths probed by tier 1 (config.py lists 13).
NumPaths == 2

\* Python's None.
None == "None"

\* HTTP status of a successful probe or fetch.
HTTP_OK == 200
\* Some non-success HTTP status.
HTTP_NOT_FOUND == 404

VARIABLES
    pc,                 \* position of run(): "idle", "fetch", "extract", "loop", "exited"
    exit_kind,          \* how the last run() ended
    apify_token,        \* Configuration.apify_token is non-empty
    api_key,            \* ClaudeFallback.api_key is non-empty
    max_calls_per_month,\* ClaudeFallback.max_calls_per_month
    calls_this_month,   \* ClaudeFallback.calls_this_month
    client,             \* ClaudeFallback._client is not None
    statistics,         \* the shared ExecutionStatistics
    companies,          \* run(): the truncated company list
    idx,                \* run(): number of companies the loop has visited
    results,            \* OutputManager.results
    extractor,          \* PositionExtractor handles and the live render resources
    close_order,        \* history: the releases the last close() performed
    dispatched,         \* history: requests sent to the AI model
    errors,             \* history: companies whose exception reached handle_error
    outcomes,           \* history: per company visited, "assembled" or "failed"
    run_linkedin_url,   \* run(): its linkedin_url argument
    run_max_companies,  \* run(): its max_companies argument, while run() reads it
    raw_listings,       \* run(): raw_listings, until the companies are extracted
    response,           \* history: what the listing collaborator answered
    last,               \* history: what the last processed company went through
    call,               \* a component method called on its own: op, in, out, done
    runs,               \* history: how many times run() was called
    logger              \* Logger: entries not yet in the log file, the file exists

vars == << pc, exit_kind, apify_token, api_key, max_calls_per_month,
           calls_this_month, client, statistics, companies, idx, results,
           extractor, close_order, dispatched, errors, outcomes,
           run_linkedin_url, run_max_companies, raw_listings, response, last,
           call, runs, logger >>

\* ------------------------------------------------- models.py: statistics
NewStatistics ==
    [ total_processed |-> 0, successful |-> 0, failed |-> 0,
      tier1_success |-> 0, tier2_success |-> 0, tier3_success |-> 0,
      claude_api_calls |-> 0, linkedin_api_calls |-> 0 ]

\* increment_success that leaves the tier counters alone.
increment_success_no_tier(s, tier) ==
    [ s EXCEPT !.successful = @ + 1, !.total_processed = @ + 1 ]

\* increment_success that forgets the total.
increment_success_no_total(s, tier) ==
    [ s EXCEPT !.successful = @ + 1,
               !.tier1_success = IF tier = 1 THEN @ + 1 ELSE @,
               !.tier2_success = IF tier = 2 THEN @ + 1 ELSE @,
               !.tier3_success = IF tier = 3 THEN @ + 1 ELSE @ ]

increment_success(s, tier) ==
    [ s EXCEPT !.successful = @ + 1,
               !.total_processed = @ + 1,
               !.tier1_success = IF tier = 1 THEN @ + 1 ELSE @,
               !.tier2_success = IF tier = 2 THEN @ + 1 ELSE @,
               !.tier3_success = IF tier = 3 THEN @ + 1 ELSE @ ]

\* increment_failure that forgets the total.
increment_failure_no_total(s) == [ s EXCEPT !.failed = @ + 1 ]

increment_failure(s) ==
    [ s EXCEPT !.failed = @ + 1, !.total_processed = @ + 1 ]

\* A rate in percent, kept exact as the fraction num / den (den > 0).
Rate(num, den) == [ num |-> num, den |-> den ]
RateLeq(a, b) == a.num * b.den <= b.num * a.den
RateEq(a, b) == a.num * b.den = b.num * a.den

\* calculate_success_rate: (successful / total_processed) * 100, 0.0 when
\* nothing was processed.
calculate_success_rate(s) ==
    IF s.total_processed = 0 THEN Rate(0, 1)
    ELSE Rate(s.successful * 100, s.total_processed)

\* calculate_heuristic_success_rate: the share of tiers 1 and 2.
calculate_heuristic_success_rate(s) ==
    LET heuristic_total == s.tier1_success + s.tier2_success
    IN IF s.total_processed = 0 THEN Rate(0, 1)
       ELSE Rate(heuristic_total * 100, s.total_processed)

\* ------------------------------------------- claude_fallback.py: AI tier
\* Response texts the AI model may answer with.
ResponseTexts ==
    { "https://acme.com/jobs", " https://acme.com/jobs ", "UNKNOWN", "Unknown",
      " unknown ", "acme.com/jobs", "http://", "",
      "ftp://acme.com/jobs", "httpbin.org/jobs", "See https://acme.com/jobs" }

\* str.strip() on the response texts.
Strip(text) ==
    CASE text = " https://acme.com/jobs " -> "https://acme.com/jobs"
      [] text = " unknown " -> "unknown"
      [] OTHER -> text

\* str.upper() on the stripped response texts.
Upper(text) ==
    CASE text = "Unknown" -> "UNKNOWN"
      [] text = "unknown" -> "UNKNOWN"
      [] text = "https://acme.com/jobs" -> "HTTPS://ACME.COM/JOBS"
      [] text = "acme.com/jobs" -> "ACME.COM/JOBS"
      [] text = "http://" -> "HTTP://"
      [] text = "ftp://acme.com/jobs" -> "FTP://ACME.COM/JOBS"
      [] text = "httpbin.org/jobs" -> "HTTPBIN.ORG/JOBS"
      [] text = "See https://acme.com/jobs" -> "SEE HTTPS://ACME.COM/JOBS"
      [] OTHER -> text

\* str.startswith("http") on the stripped response texts.
StartsWithHttp(text) == text \in { "https://acme.com/jobs", "http://", "httpbin.org/jobs" }

\* What the AI collaborator does with one request:
\*   client_ok  constructing anthropic.Anthropic succeeds
\*   kind       "api_error"  messages.create raises after the request was sent
\*              "text"       a response whose content[0].text is `text`
\*              "no_content" a response with an empty content list (IndexError)
\*              "bad_shape"  a response whose content is not indexable (TypeError)
AIOutcomes ==
    [ client_ok : BOOLEAN, kind : { "api_error", "no_content", "bad_shape" },
      text : { "" } ]
    \cup [ client_ok : BOOLEAN, kind : { "text" }, text : ResponseTexts ]

\* check_monthly_limit that lets the call at the ceiling through.
check_monthly_limit_inclusive(calls, ceiling) == calls <= ceiling

check_monthly_limit(calls, ceiling) == calls < ceiling

\* increment_call_counter that leaves the shared statistics alone.
increment_call_counter_local(w) == [ w EXCEPT !.calls = @ + 1 ]

\* The AI client's mutable part: [calls, stats, client, dispatched].
increment_call_counter(w) ==
    [ w EXCEPT !.calls = @ + 1,
               !.stats = [ @ EXCEPT !.claude_api_calls = @ + 1 ] ]

\* _parse_claude_response that tests and returns the text as received.
_parse_claude_response_no_strip(ai) ==
    IF ai.kind = "no_content" THEN None
    ELSE IF Upper(ai.text) = "UNKNOWN" \/ ~StartsWithHttp(ai.text) THEN None ELSE ai.text

_parse_claude_response(ai) ==
    IF ai.kind = "no_content" THEN None          \* except (AttributeError, IndexError)
    ELSE LET text == Strip(ai.text)
         IN IF Upper(text) = "UNKNOWN" \/ ~StartsWithHttp(text) THEN None ELSE text

\* messages.create(...): the request leaves, whatever comes back.
SendRequest(w) == [ w EXCEPT !.dispatched = @ + 1 ]

\* find_career_page_ai without the credential check.
find_career_page_ai_no_key_check(w, ceiling, key, ai) ==
    IF ~check_monthly_limit(w.calls, ceiling)
    THEN [ ret |-> None, w |-> w, checks |-> << "limit" >>, sent |-> FALSE,
           logged |-> "limit_reached" ]
    ELSE [ ret |-> _parse_claude_response(ai),
           w |-> increment_call_counter(SendRequest([ w EXCEPT !.client = TRUE ])),
           checks |-> << "limit" >>, sent |-> TRUE, logged |-> "tier3_info" ]

\* Result: ret, the new client state w, the precondition checks evaluated in
\* order, sent (a request left), and the log entry level/kind written.
find_career_page_ai(w, ceiling, key, ai) ==
    IF ~check_monthly_limit(w.calls, ceiling)
    THEN [ ret |-> None, w |-> w, checks |-> << "limit" >>, sent |-> FALSE,
           logged |-> "limit_reached" ]
    ELSE IF ~key
    THEN [ ret |-> None, w |-> w, checks |-> << "limit", "key" >>, sent |-> FALSE,
           logged |-> "no_key" ]
    ELSE IF ~w.client /\ ~ai.client_ok
    THEN \* anthropic.Anthropic(...) raised inside the try
         [ ret |-> None, w |-> w, checks |-> << "limit", "key" >>, sent |-> FALSE,
           logged |-> "call_failed" ]
    ELSE LET w1 == SendRequest([ w EXCEPT !.client = TRUE ])
         IN IF ai.kind = "api_error"
            THEN \* create raised: increment_call_counter is skipped
                 [ ret |-> None, w |-> w1, checks |-> << "limit", "key" >>,
                   sent |-> TRUE, logged |-> "call_failed" ]
            ELSE IF ai.kind = "bad_shape"
            THEN \* counted, then the parse raises an exception the parser does
                 \* not catch; the outer except answers None
                 [ ret |-> None, w |-> increment_call_counter(w1),
                   checks |-> << "limit", "key" >>, sent |-> TRUE,
                   logged |-> "call_failed" ]
            ELSE [ ret |-> _parse_claude_response(ai),
                   w |-> increment_call_counter(w1),
                   checks |-> << "limit", "key" >>, sent |-> TRUE,
                   logged |-> "tier3_info" ]

\* ------------------------------------- career_finder.py: discovery tiers
\* Final URLs a direct-path probe may resolve to (after redirects).
ProbeURLs == { "https://acme.com/careers", "https://acme.com/Jobs", "https://acme.com/jobs",
               "https://acme.com/" }

\* One requests.head(...) of tier 1: it raises a RequestException (err), or
\* answers with a status and the final URL.
ProbeOutcomes ==
    { [ err |-> TRUE, status |-> HTTP_NOT_FOUND, url |-> None ] }
    \cup [ err : { FALSE }, status : { HTTP_OK, HTTP_NOT_FOUND }, url : ProbeURLs ]

\* _is_valid_career_page without the keyword test.
_is_valid_career_page_any(url) == TRUE

\* _is_valid_career_page: the lowered URL contains a career keyword.
_is_valid_career_page(url) ==
    url \in { "https://acme.com/careers", "https://acme.com/Jobs", "https://acme.com/jobs" }

\* Tier 1, from the i-th configured path on: the loop over common_paths.
\* probed: how many paths were requested before the loop ended.
RECURSIVE find_via_direct_paths_from(_, _)
find_via_direct_paths_from(probes, i) ==
    IF i > Len(probes) THEN [ ret |-> None, probed |-> Len(probes) ]
    ELSE IF probes[i].err THEN find_via_direct_paths_from(probes, i + 1)
    ELSE IF probes[i].status = HTTP_OK /\ _is_valid_career_page(probes[i].url)
         THEN [ ret |-> probes[i].url, probed |-> i ]
         ELSE find_via_direct_paths_from(probes, i + 1)

find_via_direct_paths(probes) == find_via_direct_paths_from(probes, 1)

\* Anchors of a homepage (find_all("a", href=True)): href, link text, and
\* the container they sit in.
Hrefs == { "/careers", "/about", "", "mailto:jobs@acme.com", "http://[jobs" }
Anchors == [ href : Hrefs, text : { "Careers", "About" },
             container : { "footer", "nav", "header", "body" } ]

\* _matches_career_keyword: a keyword is a substring of lower(text + " " + href).
_matches_career_keyword(text, href) ==
    text = "Careers" \/ href \in { "/careers", "mailto:jobs@acme.com", "http://[jobs" }

\* urljoin(company_url, href) raises ValueError on a malformed bracketed host.
UrljoinRaises(href) == href = "http://[jobs"

\* make_absolute_url = urljoin("https://acme.com", href) where it returns.
make_absolute_url(href) ==
    CASE href = "/careers" -> "https://acme.com/careers"
      [] href = "/about" -> "https://acme.com/about"
      [] href = "" -> "https://acme.com"
      [] OTHER -> href

\* validate_url: urlparse(url) has a scheme and a netloc.
validate_url(url) ==
    url \in { "https://acme.com/careers", "https://acme.com/about",
              "https://acme.com/jobs", "https://acme.com/", "https://acme.com" }

\* check_footer_nav that takes the first match of the header, footer and nav
\* containers in document order.
check_footer_nav_document_order(anchors) ==
    LET Scoped(a) == a.container \in { "header", "footer", "nav" }
                     /\ _matches_career_keyword(a.text, a.href)
        m == SelectSeq(anchors, Scoped)
    IN IF m # << >> THEN m[1].href ELSE None

\* check_footer_nav: every footer container first, then every nav container;
\* within each, the anchors in document order.
check_footer_nav(anchors) ==
    LET InFooter(a) == a.container = "footer" /\ _matches_career_keyword(a.text, a.href)
        InNav(a) == a.container = "nav" /\ _matches_career_keyword(a.text, a.href)
        f == SelectSeq(anchors, InFooter)
        n == SelectSeq(anchors, InNav)
    IN IF f # << >> THEN f[1].href ELSE IF n # << >> THEN n[1].href ELSE None

\* The page-wide scan of scrape_homepage over soup.find_all("a"), from anchor i.
RECURSIVE ScanAllLinks(_, _)
ScanAllLinks(anchors, i) ==
    IF i > Len(anchors) THEN [ ret |-> None, raised |-> FALSE ]
    ELSE LET a == anchors[i]
         IN IF ~_matches_career_keyword(a.text, a.href) THEN ScanAllLinks(anchors, i + 1)
            ELSE IF UrljoinRaises(a.href) THEN [ ret |-> None, raised |-> TRUE ]
            ELSE IF validate_url(make_absolute_url(a.href))
                 THEN [ ret |-> make_absolute_url(a.href), raised |-> FALSE ]
                 ELSE ScanAllLinks(anchors, i + 1)

\* One homepage fetch: requests.get raises a RequestException (fetch =
\* "req_error") or answers; BeautifulSoup parses the markup or raises.
\* Tier 2 catches requests.RequestException only: any other exception
\* (raised = TRUE) leaves scrape_homepage.
scrape_homepage(home) ==
    IF home.fetch = "req_error" THEN [ ret |-> None, raised |-> FALSE ]
    ELSE IF home.status # HTTP_OK THEN [ ret |-> None, raised |-> FALSE ]
    ELSE IF ~home.soup_ok THEN [ ret |-> None, raised |-> TRUE ]
    ELSE LET footer_result == check_footer_nav(home.anchors)
         IN IF footer_result # None /\ footer_result # ""
            THEN IF UrljoinRaises(footer_result)
                 THEN [ ret |-> None, raised |-> TRUE ]
                 ELSE [ ret |-> make_absolute_url(footer_result), raised |-> FALSE ]
            ELSE ScanAllLinks(home.anchors, 1)

\* What a find_career_page_ai call showed: its result, the precondition checks
\* it evaluated, whether a request left, and the log entry it wrote.
AIView(t3) == [ ret |-> t3.ret, checks |-> t3.checks, sent |-> t3.sent, logged |-> t3.logged ]

\* The AI tier was not reached.
NoAI == [ ret |-> None, checks |-> << >>, sent |-> FALSE, logged |-> "none" ]

\* find_career_page that goes on to tier 2 after a tier 1 hit.
find_career_page_no_short_circuit(w, ceiling, key, env) ==
    LET t1 == find_via_direct_paths(env.probes)
        t2 == scrape_homepage(env.home)
        t3 == find_career_page_ai(w, ceiling, key, env.ai)
        Won(tier, w1) == [ w1 EXCEPT !.stats = increment_success(@, tier) ]
    IN IF t1.ret # None /\ (t2.raised \/ t2.ret = None)
       THEN [ ret |-> t1.ret, raised |-> FALSE, w |-> Won(1, w),
              tiers |-> << 1, 2 >>, ai |-> NoAI ]
       ELSE IF t2.raised
       THEN [ ret |-> None, raised |-> TRUE, w |-> w, tiers |-> << 1, 2 >>,
              ai |-> NoAI ]
       ELSE IF t2.ret # None
       THEN [ ret |-> t2.ret, raised |-> FALSE, w |-> Won(2, w),
              tiers |-> << 1, 2 >>, ai |-> NoAI ]
       ELSE IF t3.ret # None
       THEN [ ret |-> t3.ret, raised |-> FALSE, w |-> Won(3, t3.w),
              tiers |-> << 1, 2, 3 >>, ai |-> AIView(t3) ]
       ELSE [ ret |-> None, raised |-> FALSE, w |-> t3.w,
              tiers |-> << 1, 2, 3 >>, ai |-> AIView(t3) ]

\* A find_career_page that counts a failure itself when every tier misses.
find_career_page_counts_failure(w, ceiling, key, env) ==
    LET t1 == find_via_direct_paths(env.probes)
        t2 == scrape_homepage(env.home)
        t3 == find_career_page_ai(w, ceiling, key, env.ai)
        Won(tier, w1) == [ w1 EXCEPT !.stats = increment_success(@, tier) ]
    IN IF t1.ret # None
       THEN [ ret |-> t1.ret, raised |-> FALSE, w |-> Won(1, w),
              tiers |-> << 1 >>, ai |-> NoAI ]
       ELSE IF t2.raised
       THEN [ ret |-> None, raised |-> TRUE, w |-> w, tiers |-> << 1, 2 >>,
              ai |-> NoAI ]
       ELSE IF t2.ret # None
       THEN [ ret |-> t2.ret, raised |-> FALSE, w |-> Won(2, w),
              tiers |-> << 1, 2 >>, ai |-> NoAI ]
       ELSE IF t3.ret # None
       THEN [ ret |-> t3.ret, raised |-> FALSE, w |-> Won(3, t3.w),
              tiers |-> << 1, 2, 3 >>, ai |-> AIView(t3) ]
       ELSE [ ret |-> None, raised |-> FALSE,
              w |-> [ t3.w EXCEPT !.stats = increment_failure(@) ],
              tiers |-> << 1, 2, 3 >>, ai |-> AIView(t3) ]

\* find_career_page. w is the state the tiers change ([calls, stats, client,
\* dispatched]); env holds what the collaborators answer (probes, home, ai).
\* The pipeline always hands a ClaudeFallback object to the finder, so
\* `if self._claude_fallback` holds.  Result: ret, raised (an exception leaves
\* the call), w, tiers (the tiers invoked, in order), ai (the AI tier's view).
find_career_page(w, ceiling, key, env) ==
    LET t1 == find_via_direct_paths(env.probes)
        t2 == scrape_homepage(env.home)
        t3 == find_career_page_ai(w, ceiling, key, env.ai)
        Won(tier, w1) == [ w1 EXCEPT !.stats = increment_success(@, tier) ]
    IN IF t1.ret # None
       THEN [ ret |-> t1.ret, raised |-> FALSE, w |-> Won(1, w),
              tiers |-> << 1 >>, ai |-> NoAI ]
       ELSE IF t2.raised
       THEN [ ret |-> None, raised |-> TRUE, w |-> w, tiers |-> << 1, 2 >>,
              ai |-> NoAI ]
       ELSE IF t2.ret # None
       THEN [ ret |-> t2.ret, raised |-> FALSE, w |-> Won(2, w),
              tiers |-> << 1, 2 >>, ai |-> NoAI ]
       ELSE IF t3.ret # None
       THEN [ ret |-> t3.ret, raised |-> FALSE, w |-> Won(3, t3.w),
              tiers |-> << 1, 2, 3 >>, ai |-> AIView(t3) ]
       ELSE [ ret |-> None, raised |-> FALSE, w |-> t3.w,
              tiers |-> << 1, 2, 3 >>, ai |-> AIView(t3) ]

\* ------------------------------ position_extractor.py: PositionExtractor
\* Selectors tried by find_job_links (JOB_SELECTORS lists 15).
NumSelectors == 2

\* hrefs an element of a career page may carry ("None": no href attribute).
JobHrefs == { "/careers/123", "https://jobs.acme.com/7", "http://[jobs",
              "javascript:void(0)", "mailto:hr@acme.com", "#", None }

\* _extract_job_url that lets mailto: links through.
_extract_job_url_allow_mailto(href) ==
    IF href # None /\ href \notin { "javascript:void(0)", "#" } THEN href ELSE None

\* _extract_job_url: the href unless missing or javascript:, mailto:, #.
_extract_job_url(href) ==
    IF href # None /\ href \notin { "javascript:void(0)", "mailto:hr@acme.com", "#" }
    THEN href ELSE None

\* find_job_links that stops at the first selector matching any element.
RECURSIVE find_job_links_first_match(_, _)
find_job_links_first_match(dom, i) ==
    IF i > Len(dom) THEN [ found_urls |-> << >>, queried |-> Len(dom) ]
    ELSE LET Valid(h) == h \in { "/careers/123", "https://jobs.acme.com/7", "http://[jobs" }
             urls == IF dom[i].raises THEN << >> ELSE SelectSeq(dom[i].hrefs, Valid)
         IN IF ~dom[i].raises /\ dom[i].hrefs # << >>
            THEN [ found_urls |-> IF urls # << >> THEN << urls[1] >> ELSE << >>,
                   queried |-> i ]
            ELSE find_job_links_first_match(dom, i + 1)

\* find_job_links over dom: per selector, in order, whether the query raises
\* and the hrefs of the elements it matches. The first extracted URL is
\* returned at once; a raising selector is skipped. Result: found_urls and
\* queried (how many selectors were queried before the method returned).
RECURSIVE find_job_links_from(_, _)
find_job_links_from(dom, i) ==
    IF i > Len(dom) THEN [ found_urls |-> << >>, queried |-> Len(dom) ]
    ELSE LET Valid(h) == _extract_job_url(h) # None
             urls == IF dom[i].raises THEN << >> ELSE SelectSeq(dom[i].hrefs, Valid)
         IN IF urls # << >> THEN [ found_urls |-> << urls[1] >>, queried |-> i ]
            ELSE find_job_links_from(dom, i + 1)

find_job_links(dom) == find_job_links_from(dom, 1).found_urls

\* urljoin(career_page_url, href) raises ValueError on a malformed bracketed
\* host.
PositionUrljoinRaises(href) == href = "http://[jobs"

\* urljoin(career_page_url, href) for the job hrefs it resolves.
position_absolute_url(href) ==
    CASE href = "/careers/123" -> "https://acme.com/careers/123"
      [] OTHER -> href

\* The extractor's handles (playwright, browser, context are set), the
\* render resources alive in the process, whether or not a handle still
\* refers to them, and launched (history: a browser was launched).
NewExtractor ==
    [ playwright |-> FALSE, browser |-> FALSE, context |-> FALSE,
      live_rt |-> 0, live_browsers |-> 0, live_contexts |-> 0, live_pages |-> 0,
      launched |-> FALSE ]

\* What the browser collaborator does during one navigate_to_page.
NavOutcomes == { "start_raise", "launch_raise", "context_raise", "page_raise",
                 "goto_raise", "ok" }

\* The step that raises is one navigate_to_page executes in state x.
NavApplicable(x, nav) ==
    /\ nav \in { "start_raise", "launch_raise" } => ~x.browser
    /\ nav = "context_raise" => ~x.context

\* navigate_to_page: result page (a page handle was returned) and x. The
\* first raising step ends the call; what was created before it stays.
navigate_to_page(x, nav) ==
    LET launched == nav \notin { "start_raise", "launch_raise" }
        has_context == launched /\ nav # "context_raise"
        has_page == has_context /\ nav # "page_raise"
        x1 == IF x.browser \/ nav = "start_raise" THEN x
              ELSE IF nav = "launch_raise"
                   THEN [ x EXCEPT !.playwright = TRUE, !.live_rt = @ + 1 ]
                   ELSE [ x EXCEPT !.playwright = TRUE, !.live_rt = @ + 1,
                                   !.browser = TRUE, !.live_browsers = @ + 1,
                                   !.launched = TRUE ]
        x2 == IF has_context /\ ~x1.context
              THEN [ x1 EXCEPT !.context = TRUE, !.live_contexts = @ + 1 ] ELSE x1
        x3 == IF has_page THEN [ x2 EXCEPT !.live_pages = @ + 1 ] ELSE x2
    IN [ page |-> nav = "ok", x |-> x3 ]

\* extract_first_position: every exception is caught, so it only returns.
\* pos: nav, dom, close_ok (page.close() returns). Result: ret, x, and caught
\* (an exception was raised by the browser and caught on the way).
extract_first_position(x, pos) ==
    LET n == navigate_to_page(x, pos.nav)
        job_links == find_job_links(pos.dom)
    IN IF ~n.page THEN [ ret |-> None, x |-> n.x, caught |-> TRUE ]
       ELSE IF ~pos.close_ok THEN [ ret |-> None, x |-> n.x, caught |-> TRUE ]
       ELSE LET x1 == [ n.x EXCEPT !.live_pages = @ - 1 ]
            IN IF job_links # << >> /\ PositionUrljoinRaises(job_links[1])
               THEN [ ret |-> None, x |-> x1, caught |-> TRUE ]
               ELSE IF job_links # << >>
               THEN [ ret |-> position_absolute_url(job_links[1]), x |-> x1,
                      caught |-> FALSE ]
               ELSE [ ret |-> None, x |-> x1, caught |-> FALSE ]

\* close(): context, then browser, then runtime, each only when its handle
\* is set; the close calls of the browser collaborator return. Result: x and
\* order (the releases performed).
close(x) ==
    LET x1 == IF x.context
              THEN [ x EXCEPT !.context = FALSE, !.live_contexts = @ - 1 ] ELSE x
        x2 == IF x1.browser
              THEN [ x1 EXCEPT !.browser = FALSE, !.live_browsers = @ - 1 ] ELSE x1
        x3 == IF x2.playwright
              THEN [ x2 EXCEPT !.playwright = FALSE, !.live_rt = @ - 1 ] ELSE x2
    IN [ x |-> x3,
         order |-> (IF x.context THEN << "context" >> ELSE << >>)
                   \o (IF x.browser THEN << "browser" >> ELSE << >>)
                   \o (IF x.playwright THEN << "runtime" >> ELSE << >>) ]

\* ------------------------------------ linkedin_fetcher.py: LinkedInFetcher
\* Raw listing items: companyName, companyUrl, companyWebsite ("" = missing).
Items ==
    [ companyName : { "", "Acme", "Globex" },
      companyUrl : { "", "https://acme.com", "https://globex.com", "acme.com",
                     "https://", "https://www.linkedin.com/company/acme",
                     "www.linkedin.com/company/acme" },
      companyWebsite : { "", "https://acme.com", "acme.com",
                         "https://www.linkedin.com/company/acme" } ]

\* "linkedin.com" in company_url
IsLinkedInUrl(url) ==
    url \in { "https://www.linkedin.com/company/acme", "www.linkedin.com/company/acme" }

\* CompanyData.validate_url: urlparse gives a scheme and a netloc.
company_validate_url(url) ==
    url \in { "https://acme.com", "https://globex.com", "https://www.linkedin.com/company/acme" }

\* The company URL extract_company_data settles on for an item, None when the
\* item is dropped.
ItemCompanyUrl(item) ==
    IF item.companyName = "" \/ item.companyUrl = "" THEN None
    ELSE LET url == IF IsLinkedInUrl(item.companyUrl) THEN item.companyWebsite
                    ELSE item.companyUrl
         IN IF url = "" \/ ~company_validate_url(url) THEN None ELSE url

RECURSIVE extract_company_data(_)
extract_company_data(raw) ==
    IF raw = << >> THEN << >>
    ELSE LET url == ItemCompanyUrl(Head(raw))
             rest == extract_company_data(Tail(raw))
         IN IF url = None THEN rest
            ELSE << [ company_name |-> Head(raw).companyName, company_url |-> url ] >> \o rest

\* validate_api_response that accepts an empty list.
validate_api_response_any_list(resp) == resp.kind = "list"

\* validate_api_response: a non-empty list.
validate_api_response(resp) == resp.kind = "list" /\ resp.items # << >>

\* LinkedInFetcher.max_items
max_items == 50

\* The maxItems parameter of the listing request: min(limit, self.max_items).
RequestMaxItems(limit) == IF limit < max_items THEN limit ELSE max_items

\* fetch_job_listings: resp is what _make_api_request does: kind "raise",
\* "none", "dict" or "list" (with items). Result: raw and the statistics.
fetch_job_listings(stats, resp) ==
    IF resp.kind = "raise" \/ ~validate_api_response(resp)
    THEN [ raw |-> << >>, stats |-> stats ]
    ELSE [ raw |-> resp.items,
           stats |-> [ stats EXCEPT !.linkedin_api_calls = @ + 1 ] ]

\* --------------------------------------------- pipeline.py: JobSourcePipeline
\* str.startswith("http") on the listing URLs.
UrlStartsWithHttp(url) == url = "https://www.linkedin.com/jobs/search"

\* _validate_inputs that does not ask the configuration for the token.
_validate_inputs_no_token(linkedin_url, max_companies, token) ==
    linkedin_url # "" /\ linkedin_url = "https://www.linkedin.com/jobs/search"

\* _validate_inputs: the clamped max_companies is a local of this method and
\* is not handed back to run().
_validate_inputs(linkedin_url, max_companies, token) ==
    IF linkedin_url = "" THEN FALSE
    ELSE IF ~UrlStartsWithHttp(linkedin_url) THEN FALSE
    ELSE token

\* Python's seq[:n].
SliceTo(seq, n) ==
    LET k == IF n >= 0 THEN (IF n < Len(seq) THEN n ELSE Len(seq))
             ELSE (IF Len(seq) + n > 0 THEN Len(seq) + n ELSE 0)
    IN SubSeq(seq, 1, k)

\* _determine_tier that always answers tier 1.
_determine_tier_first(stats) == 1

\* _determine_tier: max over [(1, t1), (2, t2), (3, t3)] by count; Python's
\* max keeps the first of equal maxima.
_determine_tier(stats) ==
    IF stats.tier1_success >= stats.tier2_success /\ stats.tier1_success >= stats.tier3_success
    THEN 1
    ELSE IF stats.tier2_success >= stats.tier3_success THEN 2 ELSE 3

\* handle_error that only logs.
handle_error_silent(stats) == stats

\* handle_error that counts the failure twice.
handle_error_twice(stats) == increment_failure(increment_failure(stats))

handle_error(stats) == increment_failure(stats)

\* add_result that puts the new result in front.
add_result_front(collected, result) == result \o collected

\* OutputManager.add_result: results.append(result); run() calls it only for
\* a result that is not None (result is << >> or a one-element sequence).
add_result(collected, result) == collected \o result

\* process_single_company that looks a position up also when no career page
\* was found.
process_single_company_extracts_anyway(company, w, x, ceiling, key, env) ==
    LET c == find_career_page(w, ceiling, key, env)
        p == extract_first_position(x, env.pos)
        Fail(w1) == [ w1 EXCEPT !.stats = increment_failure(@) ]
        finding == << [ op |-> "find_career_page", arg |-> company.company_url ] >>
        extracting == << [ op |-> "extract_first_position", arg |-> c.ret ] >>
    IN IF c.raised
       THEN [ result |-> << >>, w |-> [ c.w EXCEPT !.stats = handle_error(@) ], x |-> x,
              tiers |-> c.tiers, ai |-> c.ai, raised |-> TRUE, career |-> None,
              position_called |-> FALSE, position_caught |-> FALSE,
              position |-> None, lookups |-> finding ]
       ELSE IF c.ret = None
       THEN [ result |-> << >>, w |-> Fail(c.w), x |-> p.x,
              tiers |-> c.tiers, ai |-> c.ai, raised |-> FALSE, career |-> None,
              position_called |-> TRUE, position_caught |-> p.caught,
              position |-> None, lookups |-> finding \o extracting ]
       ELSE IF p.ret = None
       THEN [ result |-> << >>, w |-> Fail(c.w), x |-> p.x,
              tiers |-> c.tiers, ai |-> c.ai, raised |-> FALSE, career |-> c.ret,
              position_called |-> TRUE, position_caught |-> p.caught,
              position |-> p.ret, lookups |-> finding \o extracting ]
       ELSE [ result |-> << [ company_name |-> company.company_name,
                              career_page_url |-> c.ret,
                              open_position_url |-> p.ret,
                              source_tier |-> _determine_tier(c.w.stats) ] >>,
              w |-> c.w, x |-> p.x,
              tiers |-> c.tiers, ai |-> c.ai, raised |-> FALSE, career |-> c.ret,
              position_called |-> TRUE, position_caught |-> p.caught,
              position |-> p.ret, lookups |-> finding \o extracting ]

\* process_single_company. w: [calls, stats, client, dispatched]; x: the
\* extractor; env: probes, home, ai, pos. Result: result (a JobSourceResult or
\* None), w, x, and the trace of the call: tiers, ai, raised (an exception
\* reached the except clause), career (what find_career_page returned),
\* position_called, position_caught (the position lookup met an exception),
\* position (what extract_first_position returned), lookups (the sub-lookups
\* called, in order, each with the URL it was handed).
process_single_company(company, w, x, ceiling, key, env) ==
    LET c == find_career_page(w, ceiling, key, env)
        p == extract_first_position(x, env.pos)
        Fail(w1) == [ w1 EXCEPT !.stats = increment_failure(@) ]
        finding == << [ op |-> "find_career_page", arg |-> company.company_url ] >>
        extracting == << [ op |-> "extract_first_position", arg |-> c.ret ] >>
    IN IF c.raised
       THEN [ result |-> << >>, w |-> [ c.w EXCEPT !.stats = handle_error(@) ], x |-> x,
              tiers |-> c.tiers, ai |-> c.ai, raised |-> TRUE, career |-> None,
              position_called |-> FALSE, position_caught |-> FALSE,
              position |-> None, lookups |-> finding ]
       ELSE IF c.ret = None
       THEN [ result |-> << >>, w |-> Fail(c.w), x |-> x,
              tiers |-> c.tiers, ai |-> c.ai, raised |-> FALSE, career |-> None,
              position_called |-> FALSE, position_caught |-> FALSE,
              position |-> None, lookups |-> finding ]
       ELSE IF p.ret = None
       THEN [ result |-> << >>, w |-> Fail(c.w), x |-> p.x,
              tiers |-> c.tiers, ai |-> c.ai, raised |-> FALSE, career |-> c.ret,
              position_called |-> TRUE, position_caught |-> p.caught,
              position |-> p.ret, lookups |-> finding \o extracting ]
       ELSE [ result |-> << [ company_name |-> company.company_name,
                              career_page_url |-> c.ret,
                              open_position_url |-> p.ret,
                              source_tier |-> _determine_tier(c.w.stats) ] >>,
              w |-> c.w, x |-> p.x,
              tiers |-> c.tiers, ai |-> c.ai, raised |-> FALSE, career |-> c.ret,
              position_called |-> TRUE, position_caught |-> p.caught,
              position |-> p.ret, lookups |-> finding \o extracting ]

\* ----------------------------------------------------- inputs of the run
ListingUrls == { "", "ftp://www.linkedin.com/jobs", "https://www.linkedin.com/jobs/search" }

\* max_companies values handed to run().
MaxCompaniesInputs == { -1, 0, 1, 50, 51 }

\* Listing items the pipeline runs are fed with: companies named in turn
\* "Acme" and "Globex", and an item extract_company_data drops (its URL has
\* no scheme).
ItemAcme == [ companyName |-> "Acme", companyUrl |-> "https://acme.com", companyWebsite |-> "" ]
ItemGlobex == [ companyName |-> "Globex", companyUrl |-> "https://globex.com", companyWebsite |-> "" ]
ItemDropped == [ companyName |-> "Acme", companyUrl |-> "acme.com", companyWebsite |-> "" ]
RunItems == { ItemAcme, ItemGlobex, ItemDropped }

\* A listing of n items: Acme, Globex, Acme, ..., after a leading dropped
\* item when dropped holds.
Listing(n, dropped) ==
    [ i \in 1..n |->
        IF dropped /\ i = 1 THEN ItemDropped
        ELSE IF (IF dropped THEN i - 1 ELSE i) % 2 = 1 THEN ItemAcme ELSE ItemGlobex ]

RunResponses ==
    { [ kind |-> k, items |-> << >> ] : k \in { "raise", "none", "dict" } }
    \cup { [ kind |-> "list", items |-> Listing(n, d) ] :
             n \in 0..MaxItems, d \in BOOLEAN }

\* Probe runs of tier 1 the pipeline runs are fed with: every probe fails
\* (network error, or a redirect to the homepage), or the probe of path i is
\* the first to hit.
ProbeError == [ err |-> TRUE, status |-> HTTP_NOT_FOUND, url |-> None ]
ProbeRedirect == [ err |-> FALSE, status |-> HTTP_OK, url |-> "https://acme.com/" ]
ProbeCareers == [ err |-> FALSE, status |-> HTTP_OK, url |-> "https://acme.com/careers" ]
RunProbes ==
    { [ i \in 1..NumPaths |-> IF i % 2 = 1 THEN ProbeError ELSE ProbeRedirect ] }
    \cup { [ i \in 1..NumPaths |-> IF i < k THEN ProbeError ELSE ProbeCareers ] :
             k \in 1..NumPaths }

\* Homepages the pipeline runs are fed with.
RunHomes ==
    { [ fetch |-> "req_error", status |-> HTTP_OK, soup_ok |-> TRUE, anchors |-> << >> ],
      [ fetch |-> "ok", status |-> HTTP_NOT_FOUND, soup_ok |-> TRUE, anchors |-> << >> ],
      [ fetch |-> "ok", status |-> HTTP_OK, soup_ok |-> TRUE,
        anchors |-> << [ href |-> "/about", text |-> "About", container |-> "body" ] >> ],
      [ fetch |-> "ok", status |-> HTTP_OK, soup_ok |-> TRUE,
        anchors |-> << [ href |-> "/careers", text |-> "Careers", container |-> "footer" ] >> ],
      [ fetch |-> "ok", status |-> HTTP_OK, soup_ok |-> TRUE,
        anchors |-> << [ href |-> "http://[jobs", text |-> "Careers", container |-> "footer" ] >> ] }

\* AI outcomes the pipeline runs are fed with.
RunAIOutcomes ==
    { [ client_ok |-> FALSE, kind |-> "text", text |-> "UNKNOWN" ],
      [ client_ok |-> TRUE, kind |-> "api_error", text |-> "" ],
      [ client_ok |-> TRUE, kind |-> "bad_shape", text |-> "" ],
      [ client_ok |-> TRUE, kind |-> "text", text |-> "UNKNOWN" ],
      [ client_ok |-> TRUE, kind |-> "text", text |-> " https://acme.com/jobs " ] }

\* Rendered career pages the pipeline runs are fed with: per selector, whether
\* the query raises and the hrefs matched. No selector matches, or selector k
\* is the first to match a usable href.
SelectorEmpty == [ raises |-> FALSE, hrefs |-> << >> ]
SelectorRaises == [ raises |-> TRUE, hrefs |-> << >> ]
SelectorJob == [ raises |-> FALSE, hrefs |-> << "#", "/careers/123" >> ]
EmptyDom == [ i \in 1..NumSelectors |-> SelectorEmpty ]
RunDoms ==
    { EmptyDom }
    \cup { [ i \in 1..NumSelectors |-> IF i < k THEN SelectorRaises ELSE SelectorJob ] :
             k \in 1..NumSelectors }

RunPositions ==
    [ nav : NavOutcomes \ { "ok" }, dom : { EmptyDom }, close_ok : { TRUE } ]
    \cup [ nav : { "ok" }, dom : RunDoms, close_ok : { TRUE } ]
    \cup [ nav : { "ok" }, dom : { EmptyDom }, close_ok : { FALSE } ]

\* Tier whose success counter went up from statistics s to t, 0 when none did.
TierCounted(s, t) ==
    IF t.tier1_success > s.tier1_success THEN 1
    ELSE IF t.tier2_success > s.tier2_success THEN 2
    ELSE IF t.tier3_success > s.tier3_success THEN 3 ELSE 0

\* Tier 1 ended without a hit and one of its probes raised a network error.
Tier1Error(probes) ==
    find_via_direct_paths(probes).ret = None /\ \E i \in 1..Len(probes) : probes[i].err

\* Tier 2 met a transient error: the fetch raised, or handling the markup did.
Tier2Error(home) == home.fetch = "req_error" \/ scrape_homepage(home).raised

\* What the counters of statistics t have gained over those of s.
CounterDelta(s, t) ==
    [ failed |-> t.failed - s.failed,
      successful |-> t.successful - s.successful,
      total_processed |-> t.total_processed - s.total_processed,
      tiers |-> (t.tier1_success + t.tier2_success + t.tier3_success)
                - (s.tier1_success + s.tier2_success + s.tier3_success) ]

\* The homepage was fetched and parsed and one of its footer anchors matches
\* a career keyword.
FooterKeywordLink(home) ==
    /\ home.fetch = "ok" /\ home.status = HTTP_OK /\ home.soup_ok
    /\ \E i \in 1..Len(home.anchors) :
          /\ home.anchors[i].container = "footer"
          /\ _matches_career_keyword(home.anchors[i].text, home.anchors[i].href)

\* The career page rendered and was closed, and one of the job-listing
\* selectors matched an element whose href is a job link.
JobListingMatch(pos) ==
    /\ pos.nav = "ok" /\ pos.close_ok
    /\ \E i \in 1..Len(pos.dom) :
          /\ ~pos.dom[i].raises
          /\ \E k \in 1..Len(pos.dom[i].hrefs) :
                /\ _extract_job_url(pos.dom[i].hrefs[k]) # None
                /\ ~PositionUrljoinRaises(pos.dom[i].hrefs[k])

NoLast ==
    [ tiers |-> << >>, ai |-> NoAI, raised |-> FALSE, career |-> None,
      position_called |-> FALSE, position_caught |-> FALSE, position |-> None,
      outcome |-> "none",
      failures |-> 0, won |-> 0, tier1_error |-> FALSE, tier2_error |-> FALSE,
      engine |-> CounterDelta(NewStatistics, NewStatistics),
      footer_link |-> FALSE, job_match |-> FALSE, lookups |-> << >> ]

\* Logger.__init__: no entry, no file written.
NewLogger == [ pending |-> FALSE, file |-> FALSE ]

\* Logger._log: one more entry in self.logs.
log_entry(lg) == [ lg EXCEPT !.pending = TRUE ]

\* Logger.save_logs: self.logs is dumped to the log file.
save_logs(lg) == [ pending |-> FALSE, file |-> TRUE ]

\* No component method is called on its own.
NoCall == [ op |-> "none", done |-> FALSE, in |-> << >>, out |-> << >> ]

\* ------------------------------------------------------------ the machine
\* JobSourcePipeline.__init__ / _initialize_components, with the
\* configuration read from the environment.
Init ==
    /\ pc = "idle"
    /\ exit_kind = "none"
    /\ apify_token \in BOOLEAN
    /\ api_key \in BOOLEAN
    /\ max_calls_per_month = MaxClaudeCalls
    /\ calls_this_month = 0
    /\ client = FALSE
    /\ statistics = NewStatistics
    /\ companies = << >>
    /\ idx = 0
    /\ results = << >>
    /\ extractor = NewExtractor
    /\ close_order = << >>
    /\ dispatched = 0
    /\ errors = 0
    /\ outcomes = << >>
    /\ run_linkedin_url = None
    /\ run_max_companies = 0
    /\ raw_listings = << >>
    /\ response = "not_asked"
    /\ last = NoLast
    /\ call = NoCall
    /\ runs = 0
    /\ logger = NewLogger

\* run() is called with a listing URL and max_companies: _validate_inputs.
RunValidate ==
    /\ pc = "idle"
    /\ runs' = runs + 1
    /\ logger' = log_entry(logger)
    /\ \E linkedin_url \in ListingUrls, n \in MaxCompaniesInputs :
          /\ run_linkedin_url' = linkedin_url
          /\ IF ~_validate_inputs(linkedin_url, n, apify_token)
             THEN /\ pc' = "exited"
                  /\ exit_kind' = "invalid"
                  /\ UNCHANGED run_max_companies
             ELSE /\ pc' = "fetch"
                  /\ run_max_companies' = n
                  /\ UNCHANGED exit_kind
    /\ UNCHANGED << call, apify_token, api_key, max_calls_per_month, calls_this_month,
                    client, statistics, companies, idx, results, extractor,
                    close_order, dispatched, errors, outcomes, raw_listings,
                    response, last >>

\* run(): fetch_job_listings(linkedin_url, limit=max_companies) and the
\* check of what it returned.
RunFetch ==
    /\ pc = "fetch"
    /\ \E resp \in RunResponses :
          LET f == fetch_job_listings(statistics, resp)
          IN /\ statistics' = f.stats
             /\ response' = IF resp.kind = "list" /\ resp.items = << >> THEN "empty_list"
                            ELSE resp.kind
             /\ IF f.raw = << >>
                THEN /\ pc' = "exited"
                     /\ exit_kind' = "no_listings"
                     /\ run_max_companies' = 0
                     /\ UNCHANGED raw_listings
                ELSE /\ pc' = "extract"
                     /\ raw_listings' = f.raw
                     /\ UNCHANGED << exit_kind, run_max_companies >>
    /\ UNCHANGED << call, runs, logger, apify_token, api_key, max_calls_per_month, calls_this_month,
                    client, companies, idx, results, extractor, close_order,
                    dispatched, errors, outcomes, run_linkedin_url, last >>

\* run(): extract_company_data and the truncation companies[:max_companies].
RunExtract ==
    /\ pc = "extract"
    /\ LET cs == extract_company_data(raw_listings)
       IN IF cs = << >>
          THEN /\ pc' = "exited"
               /\ exit_kind' = "no_companies"
               /\ UNCHANGED << companies, idx >>
          ELSE /\ pc' = "loop"
               /\ companies' = SliceTo(cs, run_max_companies)
               /\ idx' = 0
               /\ UNCHANGED exit_kind
    /\ run_max_companies' = 0
    /\ raw_listings' = << >>
    /\ UNCHANGED << call, runs, logger, apify_token, api_key, max_calls_per_month, calls_this_month,
                    client, statistics, results, extractor, close_order,
                    dispatched, errors, outcomes, run_linkedin_url, response, last >>

\* The state the discovery tiers change.
W == [ calls |-> calls_this_month, stats |-> statistics, client |-> client,
       dispatched |-> dispatched ]

\* One iteration of the loop of run(): process_single_company and add_result,
\* with the collaborators answering env.
Iterate(env) ==
    \E r \in { process_single_company(companies[idx + 1], W, extractor,
                                      max_calls_per_month, api_key, env) },
       c \in { find_career_page(W, max_calls_per_month, api_key, env) } :
       /\ statistics' = r.w.stats
       /\ calls_this_month' = r.w.calls
       /\ client' = r.w.client
       /\ dispatched' = r.w.dispatched
       /\ extractor' = r.x
       /\ results' = add_result(results, r.result)
       /\ outcomes' = Append(outcomes, IF r.result # << >> THEN "assembled" ELSE "failed")
       /\ idx' = idx + 1
       /\ errors' = IF r.raised THEN errors + 1 ELSE errors
       /\ last' = [ tiers |-> r.tiers, ai |-> r.ai, raised |-> r.raised,
                    career |-> r.career, position_called |-> r.position_called,
                    position_caught |-> r.position_caught,
                    position |-> r.position,
                    outcome |-> IF r.result # << >> THEN "assembled" ELSE "failed",
                    failures |-> r.w.stats.failed - statistics.failed,
                    won |-> TierCounted(statistics, r.w.stats),
                    tier1_error |-> Tier1Error(env.probes),
                    tier2_error |-> 2 \in { r.tiers[i] : i \in 1..Len(r.tiers) }
                                    /\ Tier2Error(env.home),
                    engine |-> CounterDelta(statistics, c.w.stats),
                    footer_link |-> 2 \in { r.tiers[i] : i \in 1..Len(r.tiers) }
                                    /\ FooterKeywordLink(env.home),
                    job_match |-> r.position_called /\ JobListingMatch(env.pos),
                    lookups |-> r.lookups ]

\* The defaults standing for collaborators a call never reaches.
IdleHome == [ fetch |-> "req_error", status |-> HTTP_OK, soup_ok |-> TRUE, anchors |-> << >> ]
IdleAI == [ client_ok |-> TRUE, kind |-> "text", text |-> "UNKNOWN" ]
IdlePosition == [ nav |-> "ok", dom |-> EmptyDom, close_ok |-> TRUE ]

\* The loop body for the next company. A collaborator is drawn only when the
\* call reaches it.
ProcessCompanyWith(probe_runs, homes, ai_outcomes, positions) ==
    /\ pc = "loop"
    /\ idx < Len(companies)
    /\ \E probes \in probe_runs :
          \E home \in (IF find_via_direct_paths(probes).ret # None THEN { IdleHome } ELSE homes) :
          \E ai \in (IF find_via_direct_paths(probes).ret # None
                        \/ scrape_homepage(home).raised \/ scrape_homepage(home).ret # None
                     THEN { IdleAI } ELSE ai_outcomes) :
             LET env0 == [ probes |-> probes, home |-> home, ai |-> ai, pos |-> IdlePosition ]
                 c == find_career_page(W, max_calls_per_month, api_key, env0)
             IN \E pos \in (IF c.ret = None THEN { IdlePosition }
                            ELSE { q \in positions : NavApplicable(extractor, q.nav) }) :
                   Iterate([ env0 EXCEPT !.pos = pos ])
    /\ UNCHANGED << call, runs, logger, pc, exit_kind, apify_token, api_key, max_calls_per_month,
                    companies, close_order, run_linkedin_url, run_max_companies,
                    raw_listings, response >>

ProcessCompany == ProcessCompanyWith(RunProbes, RunHomes, RunAIOutcomes, RunPositions)

\* run() after the loop: save_to_json, the summary, close(), save_logs.
\* save_ok: writing the output file succeeds; otherwise the exception leaves
\* run() at that statement.
Finalize ==
    /\ pc = "loop"
    /\ idx = Len(companies)
    /\ \E save_ok \in BOOLEAN :
          IF ~save_ok
          THEN /\ exit_kind' = "save_raised"
               /\ UNCHANGED << extractor, close_order, logger >>
          ELSE /\ extractor' = close(extractor).x
               /\ close_order' = close(extractor).order
               /\ logger' = save_logs(logger)
               /\ exit_kind' = "normal"
    /\ pc' = "exited"
    /\ UNCHANGED << call, runs, apify_token, api_key, max_calls_per_month, calls_this_month,
                    client, statistics, companies, idx, results, dispatched,
                    errors, outcomes, run_linkedin_url, run_max_companies,
                    raw_listings, response, last >>

Next == RunValidate \/ RunFetch \/ RunExtract \/ ProcessCompany \/ Finalize

Spec == Init /\ [][Next]_vars

TypeOK ==
    /\ pc \in { "idle", "fetch", "extract", "loop", "exited" }
    /\ idx \in 0..Len(companies)
    /\ calls_this_month \in Nat
    /\ statistics.total_processed \in Nat
    /\ runs \in Nat
    /\ logger \in [ pending : BOOLEAN, file : BOOLEAN ]

\* The loop and the finalisation are sequential code over a finite list with
\* bounded waits: a step that can be taken is taken.
FairSpec == Spec /\ WF_vars(ProcessCompany) /\ WF_vars(Finalize)

\* ------------------------------------------- component methods on their own
\* The variables a component method called on its own leaves alone.
pipeline_vars == << pc, exit_kind, apify_token, max_calls_per_month, companies,
                    idx, results, close_order, errors, outcomes, run_linkedin_url,
                    run_max_companies, raw_listings, response, last, runs, logger >>
finder_vars == << api_key, calls_this_month, client, statistics, dispatched >>

\* A freshly constructed pipeline about to call op with one of inputs.
CallInit(op, inputs) ==
    /\ call \in { [ op |-> op, done |-> FALSE, in |-> i, out |-> << >> ] : i \in inputs }
    /\ pc = "idle"
    /\ exit_kind = "none"
    /\ apify_token = TRUE
    /\ api_key \in BOOLEAN
    /\ max_calls_per_month = MaxClaudeCalls
    /\ calls_this_month = 0
    /\ client = FALSE
    /\ statistics = NewStatistics
    /\ companies = << >>
    /\ idx = 0
    /\ results = << >>
    /\ extractor = NewExtractor
    /\ close_order = << >>
    /\ dispatched = 0
    /\ errors = 0
    /\ outcomes = << >>
    /\ run_linkedin_url = None
    /\ run_max_companies = 0
    /\ raw_listings = << >>
    /\ response = "not_asked"
    /\ last = NoLast
    /\ runs = 0
    /\ logger = NewLogger

\* Largest number of elements one selector matches.
MaxElements == 2

\* hrefs _extract_job_url rejects, and hrefs it accepts.
ExcludedHrefs == { "javascript:void(0)", "mailto:hr@acme.com", "#", None }
UsableHrefs == JobHrefs \ ExcludedHrefs

\* The element lists one selector may match: up to MaxElements elements with
\* different hrefs drawn from hrefs.
ElementLists(hrefs) ==
    { s \in UNION { [ 1..n -> hrefs ] : n \in 0..MaxElements } :
        \A i, j \in 1..Len(s) : s[i] = s[j] => i = j }

\* Rendered pages: every selector raises or matches a list of elements; the
\* elements carry usable hrefs and hrefs of one excluded kind.
PageDoms ==
    UNION { [ 1..NumSelectors ->
                { SelectorRaises }
                \cup { [ raises |-> FALSE, hrefs |-> s ] :
                         s \in ElementLists(UsableHrefs \cup { e }) } ] :
            e \in ExcludedHrefs }

\* Position lookups: the page renders and is queried, or the browser fails at
\* some step on a page that holds a job link.
PositionCalls ==
    [ nav : { "ok" }, dom : PageDoms, close_ok : { TRUE } ]
    \cup [ nav : NavOutcomes, dom : RunDoms, close_ok : BOOLEAN ]

PositionInit == CallInit("extract_first_position", PositionCalls) /\ api_key

\* extract_first_position(career_page_url) on the page call.in. out: ret,
\* caught, rendered (find_job_links ran on the page) and queried (the number
\* of selectors it queried).
ApplyExtractFirstPosition ==
    /\ call.op = "extract_first_position"
    /\ ~call.done
    /\ LET r == extract_first_position(extractor, call.in)
           rendered == navigate_to_page(extractor, call.in.nav).page
       IN /\ extractor' = r.x
          /\ call' = [ call EXCEPT
                         !.done = TRUE,
                         !.out = [ ret |-> r.ret, caught |-> r.caught,
                                   rendered |-> rendered,
                                   queried |-> IF rendered
                                               THEN find_job_links_from(call.in.dom, 1).queried
                                               ELSE 0 ] ]
    /\ UNCHANGED << pipeline_vars, finder_vars >>

PositionNext == ApplyExtractFirstPosition

PositionSpec == PositionInit /\ [][PositionNext]_vars

\* Tier 1 on its own: every run of probe outcomes over the configured paths.
DirectPathsInit ==
    CallInit("find_via_direct_paths", [ 1..NumPaths -> ProbeOutcomes ]) /\ api_key

\* find_via_direct_paths(company_url) against the probe outcomes call.in.
ApplyFindViaDirectPaths ==
    /\ call.op = "find_via_direct_paths"
    /\ ~call.done
    /\ call' = [ call EXCEPT !.done = TRUE, !.out = find_via_direct_paths(call.in) ]
    /\ UNCHANGED << pipeline_vars, finder_vars, extractor >>

DirectPathsNext == ApplyFindViaDirectPaths

DirectPathsSpec == DirectPathsInit /\ [][DirectPathsNext]_vars

\* Largest number of anchors on a homepage.
MaxAnchors == 2

\* The anchor lists of a homepage, in document order.
AnchorLists(n) == UNION { [ 1..k -> Anchors ] : k \in 0..n }

\* Tier 2 on its own: a homepage that is fetched and parsed, with every list
\* of anchors, or a fetch that fails at some step on a page of at most one
\* anchor.
Homepages ==
    [ fetch : { "ok" }, status : { HTTP_OK }, soup_ok : { TRUE },
      anchors : AnchorLists(MaxAnchors) ]
    \cup [ fetch : { "ok", "req_error" }, status : { HTTP_OK, HTTP_NOT_FOUND },
           soup_ok : BOOLEAN, anchors : AnchorLists(1) ]

HomepageInit == CallInit("scrape_homepage", Homepages) /\ api_key

\* scrape_homepage(company_url) against the homepage call.in. out: ret,
\* raised.
ApplyScrapeHomepage ==
    /\ call.op = "scrape_homepage"
    /\ ~call.done
    /\ call' = [ call EXCEPT !.done = TRUE, !.out = scrape_homepage(call.in) ]
    /\ UNCHANGED << pipeline_vars, finder_vars, extractor >>

HomepageNext == ApplyScrapeHomepage

HomepageSpec == HomepageInit /\ [][HomepageNext]_vars

\* find_career_page on its own: tier 1 hits; or it misses and tier 2 meets a
\* homepage of at most one anchor; or both miss and the AI tier meets every
\* outcome of the AI collaborator.
CareerPageCalls ==
    { [ probes |-> p, home |-> IdleHome, ai |-> IdleAI ] : p \in RunProbes }
    \cup { [ probes |-> [ i \in 1..NumPaths |-> ProbeRedirect ], home |-> h, ai |-> IdleAI ] :
             h \in { g \in Homepages : Len(g.anchors) <= 1 } }
    \cup { [ probes |-> [ i \in 1..NumPaths |-> ProbeError ], home |-> IdleHome, ai |-> a ] :
             a \in AIOutcomes }

CareerPageInit == CallInit("find_career_page", CareerPageCalls)

\* find_career_page(company_url) with the collaborators answering call.in.
\* out: ret, raised, tiers.
ApplyFindCareerPage ==
    /\ call.op = "find_career_page"
    /\ ~call.done
    /\ LET r == find_career_page(W, max_calls_per_month, api_key, call.in)
       IN /\ statistics' = r.w.stats
          /\ calls_this_month' = r.w.calls
          /\ client' = r.w.client
          /\ dispatched' = r.w.dispatched
          /\ call' = [ call EXCEPT !.done = TRUE,
                                   !.out = [ ret |-> r.ret, raised |-> r.raised,
                                             tiers |-> r.tiers ] ]
    /\ UNCHANGED << pipeline_vars, api_key, extractor >>

CareerPageNext == ApplyFindCareerPage

CareerPageSpec == CareerPageInit /\ [][CareerPageNext]_vars

\* ------------------------------------------------------------------ claims
InvokedTiers == { last.tiers[i] : i \in 1..Len(last.tiers) }

\* C1: each company handed to process_single_company ends in exactly one of
\* the two outcomes: a result is returned (and collected) and no failure is
\* counted, or nothing is returned and the failure counter went up by one.
C1_ExactlyOneOutcome ==
    [][ idx' = idx + 1 =>
          \/ /\ Len(results') = Len(results) + 1
             /\ statistics'.failed = statistics.failed
             /\ last'.outcome = "assembled"
          \/ /\ results' = results
             /\ statistics'.failed = statistics.failed + 1
             /\ last'.outcome = "failed" ]_vars

C1_Witness == idx = 2 /\ Len(results) = 1 /\ statistics.failed = 1

\* C2: an exception met by the career-page lookup or the position lookup of a
\* company becomes exactly one counted failure of that company, the loop goes
\* on, and every run that entered the loop ends having visited every company
\* of the truncated list.
C2_ExceptionsBecomeFailures ==
    /\ [][ (idx' = idx + 1 /\ (last'.raised \/ last'.position_caught)) =>
             /\ statistics'.failed = statistics.failed + 1
             /\ results' = results
             /\ pc' = "loop" ]_vars
    /\ (pc = "loop") ~> (pc = "exited" /\ idx = Len(companies))

C2_Witness ==
    errors = 1 /\ idx = 2 /\ ~last.raised /\ last.outcome = "assembled" /\ pc = "exited"

\* C3: in every reachable state total_processed = successful + failed.
C3_TotalIsSum ==
    statistics.total_processed = statistics.successful + statistics.failed

C3_Witness == idx = 1 /\ statistics.successful = 1 /\ statistics.failed = 1

\* C4: the tiers of one find_career_page call are invoked in the order 1, 2, 3
\* and the call ends with the first tier that returns a URL: the tier counted
\* as the winner is the last one invoked, and the AI tier is reached only
\* after tiers 1 and 2 returned absent.
C4_TiersAscendingShortCircuit ==
    idx > 0 =>
      /\ last.tiers \in { << 1 >>, << 1, 2 >>, << 1, 2, 3 >> }
      /\ (last.won # 0 => last.tiers[Len(last.tiers)] = last.won)
      /\ (last.career # None <=> last.won # 0)
      /\ (last.ai.checks # << >> <=> 3 \in InvokedTiers)
      /\ (3 \in InvokedTiers => ~last.raised)

C4_Witness == idx = 2 /\ last.won = 2 /\ last.tiers = << 1, 2 >> /\ statistics.tier1_success = 1

\* C5: a transient error inside tier 1 or tier 2 counts as that tier failing,
\* and the next tier is still attempted for the company.
C5_TransientErrorFallsThrough ==
    idx > 0 =>
      /\ (last.tier1_error => 2 \in InvokedTiers)
      /\ (last.tier2_error => 3 \in InvokedTiers)

\* C6: a find_career_page_ai call made with calls_this_month at the ceiling
\* sends no request, returns absent and leaves the counter unchanged.
C6_NoRequestAtCeiling ==
    [][ (idx' = idx + 1 /\ last'.ai.checks # << >>
         /\ calls_this_month = max_calls_per_month) =>
          /\ dispatched' = dispatched
          /\ ~last'.ai.sent
          /\ last'.ai.ret = None
          /\ calls_this_month' = calls_this_month
          /\ statistics'.claude_api_calls = statistics.claude_api_calls ]_vars

C6_Witness ==
    last.ai.logged = "limit_reached" /\ calls_this_month = max_calls_per_month

\* C7: every request sent to the AI model is counted: the requests sent, the
\* client's counter and the statistics' counter agree.
C7_EveryRequestCounted ==
    dispatched = calls_this_month /\ dispatched = statistics.claude_api_calls

\* C8: the number of requests sent to the AI model never exceeds the ceiling.
C8_BudgetNeverExceeded == dispatched <= max_calls_per_month

\* C9: without an AI credential, a find_career_page_ai call returns absent,
\* sends nothing and changes neither the call counter nor the statistics; the
\* budget check comes before the credential check; the company ends as one
\* ordinary failure and the loop goes on.
C9_NoCredentialDisablesTier3 ==
    [][ (idx' = idx + 1 /\ last'.ai.checks # << >> /\ ~api_key) =>
          /\ last'.ai.ret = None
          /\ ~last'.ai.sent
          /\ last'.ai.checks[1] = "limit"
          /\ dispatched' = dispatched
          /\ calls_this_month' = calls_this_month
          /\ statistics' = increment_failure(statistics)
          /\ last'.outcome = "failed"
          /\ ~last'.raised
          /\ pc' = "loop" ]_vars

C9_Witness ==
    ~api_key /\ last.ai.logged = "no_key" /\ last.ai.checks = << "limit", "key" >>
    /\ idx = 2 /\ statistics.failed = 2

\* C10: when run() has exited and the render engine was created during the
\* run, the engine is released: no browsing context, browser or automation
\* runtime is left alive.
C10_EngineReleasedOnExit ==
    (pc = "exited" /\ extractor.launched) =>
      /\ extractor.live_contexts = 0
      /\ extractor.live_browsers = 0
      /\ extractor.live_rt = 0

\* C11: the source_tier stored in an assembled result is the tier that found
\* the career page of that company, whatever tiers won for the companies
\* processed before it.
C11_SourceTierIsWinningTier ==
    (idx > 0 /\ last.outcome = "assembled") =>
      results[Len(results)].source_tier = last.won

\* C12: a result is created and collected only for a company for which both
\* a career page and a position were found, and the output collection is the
\* subsequence, in fetch order, of the companies visited so far for which
\* process_single_company returned a result, one result per such company.
C12_ResultsAreAssembledInOrder ==
    LET Assembled(i) == outcomes[i] = "assembled"
        at == SelectSeq([ i \in 1..idx |-> i ], Assembled)
    IN /\ Len(outcomes) = idx
       /\ Len(results) = Len(at)
       /\ \A k \in 1..Len(at) : results[k].company_name = companies[at[k]].company_name
       /\ idx > 0 =>
            /\ last.outcome = "assembled" <=> (last.career # None /\ last.position # None)
            /\ last.outcome = "assembled" =>
                 /\ results[Len(results)].career_page_url = last.career
                 /\ results[Len(results)].open_position_url = last.position

C12_Witness ==
    /\ pc = "exited"
    /\ outcomes = << "assembled", "assembled" >>
    /\ Len(results) = 2
    /\ results[1].company_name = "Acme"
    /\ results[2].company_name = "Globex"

\* C13: when run() was called with an empty listing URL, a listing URL that
\* does not start with a scheme prefix, or without the listing-API token, it
\* has ended without asking the listing collaborator, without visiting a
\* company and with the statistics and the output collection untouched.
C13_InvalidInputsAbortBeforeFetch ==
    (pc # "idle" /\ (run_linkedin_url = "" \/ ~UrlStartsWithHttp(run_linkedin_url)
                     \/ ~apify_token)) =>
      /\ pc = "exited"
      /\ response = "not_asked"
      /\ idx = 0 /\ outcomes = << >> /\ companies = << >>
      /\ statistics = NewStatistics
      /\ results = << >>
      /\ extractor = NewExtractor

C13_Witness ==
    /\ pc = "exited" /\ exit_kind = "invalid"
    /\ run_linkedin_url = "https://www.linkedin.com/jobs/search" /\ ~apify_token

\* [1, 50], the range _validate_inputs clamps max_companies to.
ClampMaxCompanies(n) == IF n < 1 THEN 1 ELSE IF n > max_items THEN max_items ELSE n

\* C14: for every max_companies passed to run(), the bound handed to the
\* listing request and the bound the company list is truncated with lie in
\* [1, 50]: the request's maxItems is in that range, the list iterated is no
\* longer than the clamped bound, and it keeps at least min(1, number of
\* extracted companies) companies.
C14_EffectiveBoundClamped ==
    [][ /\ (pc = "fetch" /\ pc' # "fetch") =>
             RequestMaxItems(run_max_companies) \in 1..max_items
        /\ (pc = "extract" /\ pc' = "loop") =>
             LET extracted == Len(extract_company_data(raw_listings))
             IN /\ Len(companies') <= ClampMaxCompanies(run_max_companies)
                /\ Len(companies') >= (IF extracted < 1 THEN extracted ELSE 1) ]_vars

\* C15: when the listing collaborator raised, or answered with something that
\* is not a list or with an empty list, the run has been aborted: no company
\* was visited, no discovery tier and no position lookup was invoked, and
\* linkedin_api_calls was not incremented.
C15_FetchFailureAborts ==
    response \in { "raise", "none", "dict", "empty_list" } =>
      /\ pc = "exited"
      /\ exit_kind = "no_listings"
      /\ idx = 0 /\ outcomes = << >> /\ companies = << >>
      /\ last = NoLast
      /\ dispatched = 0
      /\ extractor = NewExtractor
      /\ results = << >>
      /\ statistics.linkedin_api_calls = 0

C15_Witness == response = "dict" /\ pc = "exited" /\ exit_kind = "no_listings"

\* Selectors of a page that match at least one element, and selectors that
\* match an element with a usable href.
MatchingSelectors(dom) == { i \in 1..Len(dom) : ~dom[i].raises /\ dom[i].hrefs # << >> }
YieldingSelectors(dom) ==
    { i \in 1..Len(dom) :
        ~dom[i].raises /\ \E k \in 1..Len(dom[i].hrefs) : dom[i].hrefs[k] \in UsableHrefs }

\* Smallest member of a non-empty set of selector indices.
FirstOf(S) == CHOOSE i \in S : \A j \in S : i <= j

\* The first usable href among the elements a selector matched, resolved
\* against the career page; None when every href is excluded or the first
\* usable one does not resolve.
FirstUsable(hrefs) ==
    LET ks == { k \in 1..Len(hrefs) : hrefs[k] \in UsableHrefs }
    IN IF ks = { } \/ hrefs[FirstOf(ks)] = "http://[jobs" THEN None
       ELSE position_absolute_url(hrefs[FirstOf(ks)])

\* A position lookup whose page rendered and was closed.
PositionLookedUp ==
    call.op = "extract_first_position" /\ call.done /\ call.out.rendered
    /\ call.in.close_ok

\* C16 as stated: the selector that decides is the first one matching any
\* element; no later selector is queried, even when every element it matched
\* carries an excluded href.
C16_FirstMatchingSelectorDecides ==
    PositionLookedUp =>
      LET dom == call.in.dom
          M == MatchingSelectors(dom)
      IN IF M = { } THEN call.out.ret = None /\ call.out.queried = Len(dom)
         ELSE /\ call.out.queried = FirstOf(M)
              /\ call.out.ret = FirstUsable(dom[FirstOf(M)].hrefs)

\* C16 (amended): position extraction returns the first usable href of the
\* first selector, in configured order, that matches an element with a usable
\* href; a selector that raises, matches nothing or matches only elements
\* with excluded hrefs is passed over, no selector after the deciding one is
\* queried, and the result is absent when no selector yields a usable href.
C16_FirstYieldingSelectorDecides ==
    PositionLookedUp =>
      LET dom == call.in.dom
          Y == YieldingSelectors(dom)
      IN IF Y = { } THEN call.out.ret = None /\ call.out.queried = Len(dom)
         ELSE /\ call.out.queried = FirstOf(Y)
              /\ call.out.ret = FirstUsable(dom[FirstOf(Y)].hrefs)

C16_Witness ==
    /\ PositionLookedUp
    /\ call.in.dom[1] = [ raises |-> FALSE, hrefs |-> << "#" >> ]
    /\ call.in.dom[2].hrefs = << "https://jobs.acme.com/7", "/careers/123" >>
    /\ call.out.ret = "https://jobs.acme.com/7"
    /\ call.out.queried = 2

\* href.startswith(("javascript:", "mailto:", "#"))
StartsWithExcludedPrefix(href) == href \in { "javascript:void(0)", "mailto:hr@acme.com", "#" }

\* The hrefs of the elements matched on a page by the selectors that answer.
CandidateHrefs(dom) ==
    UNION { { dom[i].hrefs[k] : k \in 1..Len(dom[i].hrefs) } :
            i \in { j \in 1..Len(dom) : ~dom[j].raises } }

\* C17: a value returned by extract_first_position is never one of the
\* javascript:, mailto: or # hrefs nor resolved from one; when every candidate
\* href of the page is of these kinds, when no selector matches, or when
\* rendering raises, the result is absent, and an exception met on the way is
\* caught and gives absent.
C17_ExcludedHrefsNeverReturned ==
    (call.op = "extract_first_position" /\ call.done) =>
      LET dom == call.in.dom
          hs == CandidateHrefs(dom)
      IN /\ call.out.ret # None =>
              /\ ~StartsWithExcludedPrefix(call.out.ret)
              /\ \E h \in hs : /\ ~StartsWithExcludedPrefix(h) /\ h # None
                               /\ call.out.ret = position_absolute_url(h)
         /\ (\A h \in hs : StartsWithExcludedPrefix(h)) => call.out.ret = None
         /\ (~call.out.rendered \/ ~call.in.close_ok) => call.out.ret = None
         /\ call.out.caught => call.out.ret = None

C17_Witness ==
    /\ call.op = "extract_first_position" /\ call.done /\ call.out.rendered
    /\ call.in.dom[1].hrefs = << "mailto:hr@acme.com" >>
    /\ call.in.dom[2] = SelectorRaises
    /\ call.out.ret = None
    /\ call.out.queried = 2

\* A career keyword is a substring of the lowered URL.
ContainsCareerKeyword(url) ==
    url \in { "https://acme.com/careers", "https://acme.com/Jobs", "https://acme.com/jobs" }

\* Paths whose probe returned success and resolved to a URL with a keyword.
HittingPaths(probes) ==
    { i \in 1..Len(probes) :
        ~probes[i].err /\ probes[i].status = HTTP_OK /\ ContainsCareerKeyword(probes[i].url) }

\* C18: the direct-path tier returns the resolved URL of the first path, in
\* list order, whose probe returned success and resolved to a URL holding a
\* career keyword; paths whose probe raised a network error, returned another
\* status or resolved to a URL without a keyword are passed over; no path
\* after the winning one is probed; with no such path the tier returns absent
\* after probing every path.
C18_DirectPathsFirstHitWins ==
    (call.op = "find_via_direct_paths" /\ call.done) =>
      LET H == HittingPaths(call.in)
      IN IF H = { } THEN call.out.ret = None /\ call.out.probed = Len(call.in)
         ELSE /\ call.out.probed = FirstOf(H)
              /\ call.out.ret = call.in[FirstOf(H)].url

C18_Witness ==
    /\ call.op = "find_via_direct_paths" /\ call.done
    /\ call.in[1] = [ err |-> FALSE, status |-> HTTP_OK, url |-> "https://acme.com/" ]
    /\ call.in[2] = [ err |-> FALSE, status |-> HTTP_OK, url |-> "https://acme.com/Jobs" ]
    /\ call.out = [ ret |-> "https://acme.com/Jobs", probed |-> 2 ]

\* Positions of the keyword-matching anchors of a page that sit in one of the
\* given containers.
MatchingIn(anchors, containers) ==
    { i \in 1..Len(anchors) :
        /\ anchors[i].container \in containers
        /\ (anchors[i].text = "Careers"
            \/ anchors[i].href \in { "/careers", "mailto:jobs@acme.com", "http://[jobs" }) }

\* urlparse(url) gives a scheme and a host.
StructurallyValid(url) ==
    url \in { "https://acme.com", "https://acme.com/", "https://acme.com/careers",
              "https://acme.com/about", "https://acme.com/jobs" }

\* What the page-wide scan gives on a page: the first keyword-matching anchor
\* in document order whose href does not resolve (the ValueError leaves the
\* tier) or resolves to a structurally valid URL.
PageWideScan(anchors) ==
    LET P == { i \in MatchingIn(anchors, { "footer", "nav", "header", "body" }) :
                 \/ anchors[i].href = "http://[jobs"
                 \/ StructurallyValid(make_absolute_url(anchors[i].href)) }
    IN IF P = { } THEN [ ret |-> None, raised |-> FALSE ]
       ELSE IF anchors[FirstOf(P)].href = "http://[jobs" THEN [ ret |-> None, raised |-> TRUE ]
       ELSE [ ret |-> make_absolute_url(anchors[FirstOf(P)].href), raised |-> FALSE ]

\* A homepage was fetched with status 200 and parsed.
HomepageScraped ==
    /\ call.op = "scrape_homepage" /\ call.done
    /\ call.in.fetch = "ok" /\ call.in.status = HTTP_OK /\ call.in.soup_ok

\* C19 as stated: a value returned by the homepage tier is the first
\* keyword-matching anchor, in document order, among the anchors inside
\* header, footer or nav containers; the page-wide scan is used only when no
\* such anchor matches; a non-success status makes the tier fail.
C19_ScopedAnchorsInDocumentOrder ==
    /\ (HomepageScraped /\ ~call.out.raised) =>
         LET S == MatchingIn(call.in.anchors, { "header", "footer", "nav" })
         IN IF S # { }
            THEN call.out.ret = make_absolute_url(call.in.anchors[FirstOf(S)].href)
            ELSE call.out = PageWideScan(call.in.anchors)
    /\ (call.op = "scrape_homepage" /\ call.done /\ call.in.status # HTTP_OK) =>
         call.out.ret = None

\* C19 (amended): the homepage tier takes the first keyword-matching anchor,
\* in document order, among the anchors inside footer containers, and when no
\* footer anchor matches among those inside nav containers; header containers
\* are not scoped. A non-empty href found this way is returned resolved and
\* unvalidated. Only when no footer or nav anchor matches, or the one found
\* has an empty href, is the page-wide scan used, which returns the first
\* keyword-matching anchor in document order whose resolved URL is
\* structurally valid. An href that does not resolve raises out of the tier.
\* A failed fetch or a non-success status makes the tier return absent.
C19_FooterThenNavThenPageWide ==
    /\ HomepageScraped =>
         LET F == MatchingIn(call.in.anchors, { "footer" })
             N == MatchingIn(call.in.anchors, { "nav" })
             scoped == IF F # { } THEN call.in.anchors[FirstOf(F)].href
                       ELSE IF N # { } THEN call.in.anchors[FirstOf(N)].href
                       ELSE ""
         IN IF scoped = "" THEN call.out = PageWideScan(call.in.anchors)
            ELSE IF scoped = "http://[jobs" THEN call.out.raised
            ELSE call.out = [ ret |-> make_absolute_url(scoped), raised |-> FALSE ]
    /\ (call.op = "scrape_homepage" /\ call.done
        /\ (call.in.fetch = "req_error" \/ call.in.status # HTTP_OK)) =>
         call.out = [ ret |-> None, raised |-> FALSE ]

C19_Witness ==
    /\ HomepageScraped
    /\ call.in.anchors = << [ href |-> "/careers", text |-> "Careers", container |-> "nav" ],
                            [ href |-> "/about", text |-> "Careers", container |-> "footer" ] >>
    /\ call.out = [ ret |-> "https://acme.com/about", raised |-> FALSE ]

\* An absolute URL: it has a scheme and a host.
IsAbsoluteUrl(url) ==
    url \in { "https://acme.com", "https://acme.com/", "https://acme.com/careers",
              "https://acme.com/Jobs", "https://acme.com/jobs", "https://acme.com/about" }

\* C20: every value find_career_page returns, whichever tier produced it, is
\* an absolute URL with a scheme and a host; a keyword-matching link whose
\* href does not resolve to one (a mailto: href in the footer) is never
\* returned as the career page.
C20_CareerPageIsAbsoluteUrl ==
    (call.op = "find_career_page" /\ call.done /\ call.out.ret # None) =>
      IsAbsoluteUrl(call.out.ret)


\* ------------------------------------------------ run() called more than once
\* How many times run() is called on one pipeline.
MaxRuns == 2

\* What the companies of a repeated run are fed with: tier 1 hits at once or
\* every tier misses, and the career page shows a job link or none.
RerunProbes ==
    { [ i \in 1..NumPaths |-> IF i % 2 = 1 THEN ProbeError ELSE ProbeRedirect ],
      [ i \in 1..NumPaths |-> ProbeCareers ] }
RerunHomes ==
    { [ fetch |-> "ok", status |-> HTTP_OK, soup_ok |-> TRUE,
        anchors |-> << [ href |-> "/about", text |-> "About", container |-> "body" ] >> ] }
RerunAIOutcomes == { [ client_ok |-> TRUE, kind |-> "text", text |-> "UNKNOWN" ] }
RerunPositions ==
    [ nav : { "ok" },
      dom : { EmptyDom, [ i \in 1..NumSelectors |-> SelectorJob ] },
      close_ok : { TRUE } ]

RerunProcessCompany ==
    ProcessCompanyWith(RerunProbes, RerunHomes, RerunAIOutcomes, RerunPositions)

\* run() has returned, or its exception has reached the caller, and the caller
\* calls run() again on the same JobSourcePipeline: the components made by
\* _initialize_components are the ones the constructor made.
RunAgain ==
    /\ pc = "exited"
    /\ runs < MaxRuns
    /\ pc' = "idle"
    /\ exit_kind' = "none"
    /\ UNCHANGED << call, runs, logger, apify_token, api_key, max_calls_per_month,
                    calls_this_month, client, statistics, companies, idx, results,
                    extractor, close_order, dispatched, errors, outcomes,
                    run_linkedin_url, run_max_companies, raw_listings, response, last >>

RerunNext ==
    \/ RunValidate
    \/ RunFetch
    \/ RunExtract
    \/ RerunProcessCompany
    \/ Finalize
    \/ RunAgain

RerunSpec == Init /\ [][RerunNext]_vars

\* C21: when run() is called a second time on the same pipeline, every
\* counter of the statistics starts from zero and the output collection
\* starts empty.
C21_SecondRunStartsFromZero ==
    (runs >= 2 /\ pc = "fetch") => (statistics = NewStatistics /\ results = << >>)

\* C22: a company that ends failed has the failure counter incremented
\* exactly once and a company whose result is assembled not at all; the
\* career-page lookup itself never changes the failure counter, and when it
\* returns absent it leaves successful, total_processed and the tier counters
\* as they were.
C22_FailureCountedOncePerFailedCompany ==
    (last.outcome # "none") =>
        /\ last.failures = (IF last.outcome = "failed" THEN 1 ELSE 0)
        /\ last.engine.failed = 0
        /\ (last.career = None /\ ~last.raised) =>
              /\ last.engine.successful = 0
              /\ last.engine.total_processed = 0
              /\ last.engine.tiers = 0

C22_Witness ==
    /\ last.outcome = "failed"
    /\ last.tiers = << 1, 2, 3 >>
    /\ last.career = None
    /\ ~last.raised
    /\ last.failures = 1
    /\ statistics.failed = 2

\* C23: exactly one tier counter, and successful, go up by one for a company
\* whose career page is found and none for a company whose lookup returns
\* absent or raises, so that successful = tier1_success + tier2_success +
\* tier3_success in every reachable state.
C23_OneTierCountedPerFoundCareerPage ==
    /\ statistics.successful
         = statistics.tier1_success + statistics.tier2_success + statistics.tier3_success
    /\ (last.outcome # "none") =>
          /\ last.engine.tiers = (IF last.career # None THEN 1 ELSE 0)
          /\ last.engine.successful = last.engine.tiers
          /\ (last.won # 0) <=> (last.career # None)

C23_Witness ==
    /\ statistics.tier1_success = 1
    /\ statistics.tier3_success = 1
    /\ statistics.successful = 2
    /\ last.won = 3
    /\ last.career # None

\* C24: the heuristic success rate is (tier1_success + tier2_success) /
\* total_processed * 100 and the overall success rate successful /
\* total_processed * 100, both 0 when nothing was processed; the heuristic
\* rate never exceeds the overall rate and both lie between 0 and 100.
C24_RatesOrderedWithinPercentRange ==
    LET heuristic == calculate_heuristic_success_rate(statistics)
        overall == calculate_success_rate(statistics)
        total == statistics.total_processed
    IN /\ total = 0 => (heuristic.num = 0 /\ overall.num = 0)
       /\ total > 0 =>
             /\ heuristic.num * total
                  = (statistics.tier1_success + statistics.tier2_success) * 100 * heuristic.den
             /\ overall.num * total = statistics.successful * 100 * overall.den
       /\ RateLeq(Rate(0, 1), heuristic)
       /\ RateLeq(heuristic, overall)
       /\ RateLeq(overall, Rate(100, 1))

C24_Witness ==
    /\ pc = "exited"
    /\ statistics.total_processed = 3
    /\ statistics.tier2_success = 1
    /\ statistics.tier3_success = 1
    /\ ~RateEq(calculate_heuristic_success_rate(statistics), calculate_success_rate(statistics))

\* ------------------------------------------- extract_company_data on its own
\* Raw listings of up to MaxItems items.
RawListings == UNION { [ 1..n -> Items ] : n \in 0..MaxItems }

ExtractionInit == CallInit("extract_company_data", RawListings) /\ api_key

\* extract_company_data(raw_response) on the raw listing call.in.
ApplyExtractCompanyData ==
    /\ call.op = "extract_company_data"
    /\ ~call.done
    /\ call' = [ call EXCEPT !.done = TRUE, !.out = extract_company_data(call.in) ]
    /\ UNCHANGED << pipeline_vars, finder_vars, extractor >>

ExtractionNext == ApplyExtractCompanyData

ExtractionSpec == ExtractionInit /\ [][ExtractionNext]_vars

\* A URL with a scheme and a host.
HasSchemeAndHost(url) ==
    url \in { "https://acme.com", "https://globex.com",
              "https://www.linkedin.com/company/acme" }

\* A profile page of the listing site.
IsProfilePage(url) ==
    url \in { "https://www.linkedin.com/company/acme", "www.linkedin.com/company/acme" }

\* The URLs a raw item carries.
CarriedUrls(item) == { item.companyUrl, item.companyWebsite } \ { "" }

\* The raw item must be dropped: no name, no URL, nothing but profile pages of
\* the listing site, or a company URL (the website where the item's URL is a
\* profile page) without scheme or host.
MustBeDropped(item) ==
    \/ item.companyName = ""
    \/ item.companyUrl = ""
    \/ \A u \in CarriedUrls(item) : IsProfilePage(u)
    \/ ~HasSchemeAndHost(IF IsProfilePage(item.companyUrl) THEN item.companyWebsite
                         ELSE item.companyUrl)

\* C25: extract_company_data drops every raw item whose name is missing,
\* whose URL is missing, which carries no URL but the listing site's profile
\* page, or whose company URL lacks a scheme or a host; every company it
\* returns has a non-empty name and a URL with scheme and host.
C25_MalformedItemsAreDropped ==
    (call.op = "extract_company_data" /\ call.done) =>
        /\ Len(call.out)
             <= Cardinality({ i \in 1..Len(call.in) : ~MustBeDropped(call.in[i]) })
        /\ \A j \in 1..Len(call.out) :
              /\ call.out[j].company_name # ""
              /\ HasSchemeAndHost(call.out[j].company_url)

\* ------------------------------------------- find_career_page_ai on its own
AIFallbackInit == CallInit("find_career_page_ai", AIOutcomes)

\* find_career_page_ai(company_url) with the AI collaborator answering
\* call.in. out: ret, sent.
ApplyFindCareerPageAI ==
    /\ call.op = "find_career_page_ai"
    /\ ~call.done
    /\ LET r == find_career_page_ai(W, max_calls_per_month, api_key, call.in)
       IN /\ statistics' = r.w.stats
          /\ calls_this_month' = r.w.calls
          /\ client' = r.w.client
          /\ dispatched' = r.w.dispatched
          /\ call' = [ call EXCEPT !.done = TRUE,
                                   !.out = [ ret |-> r.ret, sent |-> r.sent ] ]
    /\ UNCHANGED << pipeline_vars, api_key, extractor >>

AIFallbackNext == ApplyFindCareerPageAI

AIFallbackSpec == AIFallbackInit /\ [][AIFallbackNext]_vars

\* The response text without its leading and trailing blanks.
Trimmed(text) ==
    IF text = " https://acme.com/jobs " THEN "https://acme.com/jobs"
    ELSE IF text = " unknown " THEN "unknown"
    ELSE text

\* The text is the sentinel UNKNOWN in some letter case.
IsSentinel(text) == text \in { "UNKNOWN", "Unknown", "unknown" }

\* The text begins with a URL scheme (letters, then "://").
BeginsWithUrlScheme(text) ==
    text \in { "https://acme.com/jobs", "http://", "ftp://acme.com/jobs" }

\* The text begins with the four characters "http".
BeginsWithHttp(text) ==
    text \in { "https://acme.com/jobs", "http://", "httpbin.org/jobs" }

\* The AI fallback answered a request of which a response came back.
AIAnswered ==
    call.op = "find_career_page_ai" /\ call.done /\ call.out.sent
    /\ call.in.kind # "api_error"

C27_FooterLinkRunYieldsTierTwoResult ==
    ( /\ pc = "exited" /\ exit_kind = "normal"
      /\ Len(companies) = 1
      /\ Len(last.tiers) >= 2
      /\ last.footer_link
      /\ last.job_match ) =>
        /\ Len(results) = 1
        /\ results[1].source_tier = 2
        /\ results[1].company_name = companies[1].company_name
        /\ results[1].open_position_url = "https://acme.com/careers/123"
        /\ statistics.tier2_success = 1
        /\ statistics.tier1_success = 0
        /\ statistics.tier3_success = 0
        /\ statistics.failed = 0
        /\ dispatched = 0
        /\ statistics.claude_api_calls = 0

C27_Witness ==
    /\ pc = "exited" /\ exit_kind = "normal"
    /\ Len(companies) = 1
    /\ last.tiers = << 1, 2 >>
    /\ last.footer_link
    /\ last.job_match
    /\ Len(results) = 1
    /\ results[1].source_tier = 2

\* C28: within one run the automation runtime is started at most once, the
\* browser launched at most once and one browsing context created, whatever
\* navigation or launch attempt failed before.
C28_EngineCreatedAtMostOnce ==
    (pc = "loop") =>
        /\ extractor.live_rt <= 1
        /\ extractor.live_browsers <= 1
        /\ extractor.live_contexts <= 1
        /\ (extractor.live_rt = 0) => (~extractor.playwright /\ ~extractor.browser)

\* C29: every run that has ended has left a saved log file holding every
\* entry logged during the run, also when it ended in a validation failure
\* or a fetch or extraction abort.
C29_EveryRunEndsWithSavedLog ==
    (pc = "exited") => (logger.file /\ ~logger.pending)

\* C30: after the loop of a run has finished, total_processed is the number
\* of companies iterated: each company counts once, however it ended.
C30_TotalProcessedCountsCompanies ==
    (pc = "exited" /\ exit_kind \in { "normal", "save_raised" }) =>
        statistics.total_processed = Len(companies)

\* C31: after the loop of a run has finished, successful is the number of
\* results in the output collection, and no company is counted both in
\* successful and in failed.
C31_SuccessfulCountsResults ==
    /\ (pc = "exited" /\ exit_kind \in { "normal", "save_raised" }) =>
          statistics.successful = Len(results)
    /\ (last.outcome # "none") => ~(last.engine.successful > 0 /\ last.failures > 0)

\* The sub-lookups of the company visited last that are calls of op.
LookupsOf(op) == { i \in 1..Len(last.lookups) : last.lookups[i].op = op }

\* C32: for each company the career-page lookup is invoked exactly once and
\* first, with the company's URL; the position lookup is invoked at most
\* once, only after the career-page lookup returned a URL and with exactly
\* that URL, and never for a company whose career-page lookup returned absent
\* or raised.
C32_LookupsFollowStateMachine ==
    (last.outcome # "none") =>
        /\ LookupsOf("find_career_page") = { 1 }
        /\ last.lookups[1].arg = companies[idx].company_url
        /\ LookupsOf("extract_first_position") \subseteq { 2 }
        /\ Len(last.lookups) <= 2
        /\ (2 \in LookupsOf("extract_first_position")) =>
              /\ ~last.raised
              /\ last.career # None
              /\ last.lookups[2].arg = last.career
        /\ (last.raised \/ last.career = None) =>
              /\ LookupsOf("extract_first_position") = { }
              /\ last.position = None
        /\ last.position_called <=> (LookupsOf("extract_first_position") # { })

C32_Witness ==
    /\ idx = 2
    /\ Len(last.lookups) = 2
    /\ last.lookups[2].arg = "https://acme.com/careers"
    /\ last.position # None
    /\ outcomes[1] = "failed"
    /\ statistics.failed = 1
    /\ statistics.successful = 1

\* C33: in every reachable state of a run the AI client's calls_this_month
\* lies between 0 and max_calls_per_month and equals the claude_api_calls
\* counter of the shared statistics, and no step of the run decreases it.
C33_CallCounterBoundedAndShared ==
    /\ [](/\ 0 <= calls_this_month
          /\ calls_this_month <= max_calls_per_month
          /\ calls_this_month = statistics.claude_api_calls)
    /\ [][calls_this_month' >= calls_this_month]_vars

C33_Witness ==
    /\ calls_this_month = max_calls_per_month
    /\ statistics.claude_api_calls = max_calls_per_month
    /\ calls_this_month > 0
    /\ last.ai.logged = "limit_reached"
    /\ idx = 2

\* C34: every page handle a position lookup opened is closed when
\* extract_first_position has returned, whatever path it took: no page
\* handle is open between two companies or after the loop.
C34_NoPageOutlivesItsVisit ==
    /\ extractor.live_pages = 0
    /\ (call.op = "extract_first_position" /\ call.done) => extractor.live_pages = 0

====
